---- MODULE Spec2Model ----
(***************************************************************************)
(* Bridge bidding engine: the auction ledgers kept by run_loop and by the  *)
(* two BridgeCoachAgent variants, and the advisory function                *)
(* advise_your_bid with the rule tables it dispatches to.                  *)
(*                                                                         *)
(* Calls are the strings the code handles.  Python's s[0] and s[-1] are    *)
(* FirstChar and LastChar, str.upper() is Upper.                           *)
(***************************************************************************)
EXTENDS Integers, Sequences, FiniteSets, TLC

VARIABLES
    prog,                \* which program owns the ledger
    you, dealer, your,   \* run_loop: advised seat, dealer, Hand; agent: self.dealer
    turn, auction, passes, sugs, pc,          \* run_loop locals
    bidder_index, current_sequence,           \* BridgeCoachAgent fields
    consecutive_passes, trump_suit, ended,
    reply,               \* what the agent's last query returned
    before,              \* the ledger as it was before its last change
    hstr                 \* run_loop: the text typed for the hand

vars == <<prog, you, dealer, your, turn, auction, passes, sugs, pc,
          bidder_index, current_sequence, consecutive_passes, trump_suit, ended,
          reply, before, hstr>>

----------------------------------------------------------------------------
(* Bounds of the model *)

\* longest ledger a driver records
MaxLen == 5
\* longest ledger handed to advise_your_bid in AdviseSpec
MaxAdviseLen == 3

----------------------------------------------------------------------------
(* Strings *)

FirstChar(s) == SubSeq(s, 1, 1)
LastChar(s) == SubSeq(s, Len(s), Len(s))

LowerCase == <<"a","b","c","d","e","f","g","h","i","j","k","l","m",
               "n","o","p","q","r","s","t","u","v","w","x","y","z">>
UpperCase == <<"A","B","C","D","E","F","G","H","I","J","K","L","M",
               "N","O","P","Q","R","S","T","U","V","W","X","Y","Z">>

UpperChar(c) ==
    IF \E i \in 1..26 : LowerCase[i] = c
    THEN UpperCase[CHOOSE i \in 1..26 : LowerCase[i] = c]
    ELSE c

RECURSIVE Upper(_)
Upper(s) ==
    IF Len(s) = 0 THEN ""
    ELSE UpperChar(FirstChar(s)) \o Upper(SubSeq(s, 2, Len(s)))

----------------------------------------------------------------------------
(* Basic hand math *)

RANKS == <<"2","3","4","5","6","7","8","9","T","J","Q","K","A">>
SUITS == <<"S","H","D","C">>

HCP_MAP(r) ==
    CASE r = "J" -> 1
      [] r = "Q" -> 2
      [] r = "K" -> 3
      [] r = "A" -> 4
      [] OTHER -> 0

RECURSIVE hcp(_)
hcp(cards) ==
    IF cards = <<>> THEN 0
    ELSE HCP_MAP(FirstChar(Head(cards))) + hcp(Tail(cards))

suit_len(cards, suit) ==
    Len(SelectSeq(cards, LAMBDA c : SubSeq(c, 2, 2) = suit))

shape(cards) ==
    <<suit_len(cards, "S"), suit_len(cards, "H"),
      suit_len(cards, "D"), suit_len(cards, "C")>>

\* sorted(sh) in [[3,3,3,4],[2,3,4,4],[2,3,3,5]], by the multiset of lengths
is_balanced(sh) ==
    LET n(v) == Cardinality({i \in 1..4 : sh[i] = v})
    IN \/ n(3) = 3 /\ n(4) = 1
       \/ n(2) = 1 /\ n(3) = 1 /\ n(4) = 2
       \/ n(2) = 1 /\ n(3) = 2 /\ n(5) = 1

count_aces(cards) ==
    Len(SelectSeq(cards, LAMBDA c : FirstChar(c) = "A"))

Hand(cards) == [cards |-> cards, hcp |-> hcp(cards), shape |-> shape(cards)]

Suggestion(bid, reason) == [bid |-> bid, reason |-> reason]

Opt(cond, s) == IF cond THEN <<s>> ELSE <<>>

\* the value a raised exception takes in place of a suggestion list
Raised(exc) == <<Suggestion(exc, "raised")>>
IsRaised(r) == r = Raised("KeyError")

----------------------------------------------------------------------------
(* parse_hand_string *)

RECURSIVE LStrip(_)
LStrip(s) ==
    IF Len(s) > 0 /\ FirstChar(s) = " " THEN LStrip(SubSeq(s, 2, Len(s))) ELSE s

RECURSIVE RStrip(_)
RStrip(s) ==
    IF Len(s) > 0 /\ LastChar(s) = " " THEN RStrip(SubSeq(s, 1, Len(s) - 1)) ELSE s

\* str.strip()
Strip(s) == RStrip(LStrip(s))

\* str.replace(c, "")
RECURSIVE Remove(_, _)
Remove(s, c) ==
    IF Len(s) = 0 THEN ""
    ELSE (IF FirstChar(s) = c THEN "" ELSE FirstChar(s)) \o Remove(SubSeq(s, 2, Len(s)), c)

\* c in s, for a single character c
Contains(s, c) == \E i \in 1..Len(s) : SubSeq(s, i, i) = c

\* str.split(sep), for a single character sep: empty pieces are kept
RECURSIVE Split(_, _)
Split(s, sep) ==
    IF ~Contains(s, sep) THEN <<s>>
    ELSE LET i == CHOOSE k \in 1..Len(s) :
                      SubSeq(s, k, k) = sep /\ \A j \in 1..(k - 1) : SubSeq(s, j, j) # sep
         IN <<SubSeq(s, 1, i - 1)>> \o Split(SubSeq(s, i + 1, Len(s)), sep)

IsRank(r) == \E i \in 1..Len(RANKS) : RANKS[i] = r

\* what parse_hand_string returns in place of a card list when it raises
ValueError == <<"ValueError">>

\* the cards of one group of the S.H.D.C notation
GroupCards(ranks, suit) == [i \in 1..Len(ranks) |-> SubSeq(ranks, i, i) \o suit]

parse_hand_string(text) ==
    LET s == Remove(Upper(Strip(text)), "-")
        parts == Split(s, ".")
        toks == SelectSeq(Split(s, " "), LAMBDA t : Len(t) > 0)
    IN IF Contains(s, ".") /\ ~Contains(s, " ")
       THEN IF Len(parts) # 4 THEN ValueError
            ELSE IF \E k \in 1..4 : \E i \in 1..Len(parts[k]) : ~IsRank(SubSeq(parts[k], i, i))
            THEN ValueError
            ELSE GroupCards(parts[1], "S") \o GroupCards(parts[2], "H")
                   \o GroupCards(parts[3], "D") \o GroupCards(parts[4], "C")
       ELSE IF Len(toks) # 13 THEN ValueError
            ELSE IF \E i \in 1..13 : Len(toks[i]) # 2 THEN ValueError
            ELSE IF \E i \in 1..13 :
                        ~IsRank(FirstChar(toks[i])) \/ LastChar(toks[i]) \notin {"S", "H", "D", "C"}
            THEN ValueError
            ELSE toks

----------------------------------------------------------------------------
(* Partner range heuristics *)

partner_range_guess(a) ==
    IF a = <<>> THEN <<0, 0>>
    ELSE LET last == a[Len(a)]
         IN CASE last = "1NT" -> <<15, 17>>
              [] last = "2NT" -> <<20, 21>>
              [] last \in {"1S", "1H", "1D", "1C"} -> <<12, 21>>
              [] last = "2C" -> <<22, 40>>
              [] last = "3NT" -> <<25, 27>>
              [] OTHER -> <<0, 20>>

----------------------------------------------------------------------------
(* Core suggestion logic *)

\* the order table with 1NT ranked after the suit openings
OpeningOrder_nt_late(b) ==
    CASE b = "2C" -> 0
      [] b = "2NT" -> 1
      [] b \in {"1S", "1H"} -> 3
      [] b = "1D" -> 4
      [] b = "1C" -> 5
      [] b = "1NT" -> 6
      [] b \in {"3S", "3H"} -> 6
      [] b \in {"2S", "2H"} -> 7
      [] b = "Pass" -> 9
      [] OTHER -> 8

\* order.get(b, 8)
OpeningOrder(b) ==
    CASE b = "2C" -> 0
      [] b = "2NT" -> 1
      [] b = "1NT" -> 2
      [] b \in {"1S", "1H"} -> 3
      [] b = "1D" -> 4
      [] b = "1C" -> 5
      [] b \in {"3S", "3H"} -> 6
      [] b \in {"2S", "2H"} -> 7
      [] b = "Pass" -> 9
      [] OTHER -> 8

\* {s.bid: s for s in out}: keys in first-insertion order, the last value kept
RECURSIVE UniqKeys(_, _)
UniqKeys(out, seen) ==
    IF out = <<>> THEN <<>>
    ELSE IF Head(out).bid \in seen THEN UniqKeys(Tail(out), seen)
    ELSE <<Head(out).bid>> \o UniqKeys(Tail(out), seen \cup {Head(out).bid})

UniqValue(out, k) ==
    out[CHOOSE i \in 1..Len(out) :
            /\ out[i].bid = k
            /\ \A j \in (i+1)..Len(out) : out[j].bid # k]

\* sorted(uniq, key=...) is stable: keys of equal priority keep their order
RECURSIVE SortFrom(_, _)
SortFrom(keys, k) ==
    IF k > 9 THEN <<>>
    ELSE SelectSeq(keys, LAMBDA b : OpeningOrder(b) = k) \o SortFrom(keys, k + 1)

\* the strong opening from 23 points on
opens_two_clubs_from_23(H) == H >= 23

\* if H>=22: the strong opening, and nothing else
opens_two_clubs(H) == H >= 22

opening_suggestions(hand) ==
    LET H == hand.hcp
        S == hand.shape[1]
        Ht == hand.shape[2]
        D == hand.shape[3]
        C == hand.shape[4]
        bal == is_balanced(hand.shape)
        rules ==
            Opt(bal /\ 20 <= H /\ H <= 21, Suggestion("2NT", "20-21 HCP, balanced."))
         \o Opt(bal /\ 15 <= H /\ H <= 17,
                Suggestion("1NT", "15-17 HCP, balanced; no 5-card major."))
         \o Opt(6 <= H /\ H <= 10 /\ Ht >= 6, Suggestion("2H", "Weak two: 6+ hearts, 6-10 HCP."))
         \o Opt(6 <= H /\ H <= 10 /\ S >= 6, Suggestion("2S", "Weak two: 6+ spades, 6-10 HCP."))
         \o Opt(5 <= H /\ H <= 10 /\ Ht >= 7, Suggestion("3H", "Preempt: 7+ hearts, 5-10 HCP."))
         \o Opt(5 <= H /\ H <= 10 /\ S >= 7, Suggestion("3S", "Preempt: 7+ spades, 5-10 HCP."))
         \o (IF 12 <= H /\ H <= 21
             THEN IF S >= 5 \/ Ht >= 5
                  THEN Opt(S >= 5 /\ S >= Ht, Suggestion("1S", "HCP and 5+ spades."))
                    \o Opt(Ht >= 5 /\ Ht > S, Suggestion("1H", "HCP and 5+ hearts."))
                  ELSE IF D >= C
                       THEN <<Suggestion("1D", "HCP, no 5-card major; longer/equal diamonds.")>>
                       ELSE <<Suggestion("1C", "HCP, no 5-card major; longer clubs.")>>
             ELSE <<>>)
        out == IF H < 12 /\ rules = <<>>
               THEN <<Suggestion("Pass", "HCP - no suitable preempt.")>>
               ELSE rules
        sorted == SortFrom(UniqKeys(out, {}), 0)
    IN IF opens_two_clubs(H)
       THEN <<Suggestion("2C", "22+ HCP - strong, artificial, forcing opening.")>>
       ELSE [i \in 1..Len(sorted) |-> UniqValue(out, sorted[i])]

overcall_suggestions(rhs_open, hand) ==
    LET H == hand.hcp
        S == hand.shape[1]
        Ht == hand.shape[2]
        D == hand.shape[3]
        C == hand.shape[4]
        bal == is_balanced(hand.shape)
        opener_suit == LastChar(rhs_open)
        level(suit) == IF FirstChar(rhs_open) = "1" /\ suit # opener_suit THEN "1" ELSE "2"
        suitcall(suit, ln) ==
            IF ln >= 5
            THEN Opt(8 <= H /\ H <= 16,
                     Suggestion(level(suit) \o suit, "overcall: 5+ card suit, 8-16 HCP."))
              \o Opt(6 <= H /\ H <= 10 /\ ln >= 6 /\ level(suit) \in {"2", "3"},
                     Suggestion("JUMP " \o level(suit) \o suit, "Weak jump overcall."))
            ELSE <<>>
        ln_open == CASE opener_suit = "S" -> S
                     [] opener_suit = "H" -> Ht
                     [] opener_suit = "D" -> D
                     [] opener_suit = "C" -> C
        out ==
            Opt(bal /\ H >= 19, Suggestion("2NT", "19-21 balanced overcall with stopper(s)."))
         \o Opt(bal /\ 15 <= H /\ H <= 18,
                Suggestion("1NT", "15-18 balanced overcall with stopper(s)."))
         \o suitcall("S", S) \o suitcall("H", Ht) \o suitcall("D", D) \o suitcall("C", C)
         \o Opt(H >= 12 /\ ln_open <= 2,
                Suggestion("X", "Takeout double: 12+ HCP, short in opener's suit."))
    IN IF rhs_open \in {"1NT", "2NT"}
       THEN IF rhs_open = "1NT" /\ H >= 15
            THEN <<Suggestion("X", "Penalty double vs 1NT (15+ HCP).")>>
            ELSE <<Suggestion("Pass", "No NT penalty double available by rule.")>>
       ELSE IF opener_suit \notin {"S", "H", "D", "C"}
            THEN Raised("KeyError")
            ELSE IF out = <<>>
                 THEN <<Suggestion("Pass", "No safe overcall/double by these rules.")>>
                 ELSE out

responder_suggestions(opener_bid, hand, a) ==
    LET h == hand.hcp
        S == hand.shape[1]
        Ht == hand.shape[2]
        D == hand.shape[3]
        C == hand.shape[4]
        over1NT ==
            Opt(Ht >= 5, Suggestion("2D", "Transfer to hearts (5+ hearts)."))
         \o Opt(S >= 5, Suggestion("2H", "Transfer to spades (5+ spades)."))
         \o Opt((S >= 4 \/ Ht >= 4) /\ h >= 8,
                Suggestion("2C", "Stayman - asks for 4-card major (8+ HCP)."))
         \o (IF S < 5 /\ Ht < 5
             THEN Opt(h <= 7, Suggestion("Pass", "0-7 HCP, no 5-card major."))
               \o Opt(8 <= h /\ h <= 9, Suggestion("2NT", "Invite: 8-9 HCP"))
               \o (IF h >= 10
                   THEN <<Suggestion("3NT", "Game: 10+ HCP opposite 1NT")>>
                     \o Opt(h >= 16, Suggestion("4NT",
                              "Quantitative: invite 6NT with 16+ opposite 15-17."))
                     \o Opt(h >= 20, Suggestion("6NT", "Small slam tendency"))
                     \o Opt(h >= 21, Suggestion("7NT", "Grand slam tendency"))
                   ELSE <<>>)
             ELSE <<>>)
         \o Opt(h >= 13, Suggestion("4C", "Gerber: ask for aces over NT (slam interest)."))
        trump == IF opener_bid = "1S" THEN "S" ELSE "H"
        ln == IF trump = "S" THEN S ELSE Ht
        newsuit(suit, ln2) ==
            Opt(suit # trump /\ ln2 >= 4 /\ h >= 10,
                Suggestion("2" \o suit, "New suit: 10+ HCP, 4+ cards."))
        overMajor ==
            (IF ln >= 3
             THEN Opt(6 <= h /\ h <= 9, Suggestion("2" \o trump, "Single raise: trumps, 6-9 HCP."))
               \o Opt(10 <= h /\ h <= 12, Suggestion("3" \o trump, "Limit raise: trumps, 10-12 HCP."))
               \o (IF h >= 13
                   THEN <<Suggestion("4" \o trump, "Game raise: trumps, 13+ HCP (25+ combined)."),
                          Suggestion("2NT",
                              "Jacoby 2NT: GF raise with 4+ support, 13+ HCP (slam interest).")>>
                   ELSE <<>>)
             ELSE <<>>)
         \o Opt(6 <= h /\ h <= 10, Suggestion("1NT", "6-10, no fit (semi-forcing)."))
         \o newsuit("H", Ht) \o newsuit("S", S) \o newsuit("D", D) \o newsuit("C", C)
        overMinor ==
            Opt(S >= 4 /\ h >= 6, Suggestion("1S", "4+ spades, 6+ HCP."))
         \o Opt(Ht >= 4 /\ h >= 6, Suggestion("1H", "4+ hearts, 6+ HCP."))
         \o Opt(S < 4 /\ Ht < 4 /\ 6 <= h /\ h <= 10,
                Suggestion("1NT", "6-10 balanced, no 4-card major."))
         \o Opt(opener_bid = "1D" /\ D >= 4 /\ 6 <= h /\ h <= 9,
                Suggestion("2D", "Raise diamonds, 6-9."))
         \o Opt(opener_bid = "1C" /\ C >= 4 /\ 6 <= h /\ h <= 9,
                Suggestion("2C", "Raise clubs, 6-9."))
        over2NT ==
            <<Suggestion("3NT", "Game opposite 20-21")>>
         \o Opt(h >= 5, Suggestion("4C", "Gerber: ask for aces (slam interest)."))
         \o Opt(h >= 11, Suggestion("4NT", "Quantitative: invite 6NT"))
         \o Opt(h >= 13, Suggestion("6NT", "Small slam tendency"))
         \o Opt(h >= 16, Suggestion("7NT", "Grand slam tendency"))
        tooWeak == <<Suggestion("Pass", "Too weak.")>>
    IN CASE opener_bid = "1NT" -> over1NT
         [] opener_bid \in {"1S", "1H"} -> IF overMajor = <<>> THEN tooWeak ELSE overMajor
         [] opener_bid \in {"1D", "1C"} -> IF overMinor = <<>> THEN tooWeak ELSE overMinor
         [] opener_bid = "2NT" ->
                IF h <= 3 THEN <<Suggestion("Pass", "Very weak opposite 20-21.")>>
                ELSE over2NT
         [] opener_bid = "2C" -> <<Suggestion("2D", "Waiting (artificial), game forcing.")>>
         [] OTHER -> <<Suggestion("Pass", "No rule matched.")>>

----------------------------------------------------------------------------
(* Slam auto-replies *)

\* auto_reply_rkcb answering four aces in the one-ace slot
auto_reply_rkcb_1430(our_cards) ==
    LET aces == count_aces(our_cards)
    IN CASE aces = 0 -> "5C"
         [] aces = 1 -> "5D"
         [] aces = 2 -> "5H"
         [] aces = 3 -> "5S"
         [] aces = 4 -> "5D"
         [] OTHER -> "5C"

auto_reply_rkcb(our_cards) ==
    LET aces == count_aces(our_cards)
    IN CASE aces = 0 -> "5C"
         [] aces = 1 -> "5D"
         [] aces = 2 -> "5H"
         [] aces = 3 -> "5S"
         [] aces = 4 -> "5C"
         [] OTHER -> "5C"

auto_reply_gerber(our_cards) ==
    LET aces == count_aces(our_cards)
    IN CASE aces = 0 -> "4D"
         [] aces = 1 -> "4H"
         [] aces = 2 -> "4S"
         [] aces = 3 -> "4NT"
         [] aces = 4 -> "4D"
         [] OTHER -> "4D"

nt_context_exists(a) == \E i \in 1..Len(a) : a[i] \in {"1NT", "2NT", "3NT"}

\* "None" stands for Python's None
major_fit_agreed(a) ==
    LET bids == SelectSeq(a, LAMBDA b : b \notin {"Pass", "X", "XX"})
        has(M) == \E i \in 1..Len(bids) : bids[i] \in {"2" \o M, "3" \o M, "4" \o M}
    IN IF has("H") THEN "H" ELSE IF has("S") THEN "S" ELSE "None"

----------------------------------------------------------------------------
(* Advise your bid (your turn only) *)

real_calls(a) == SelectSeq(a, LAMBDA b : b \notin {"Pass", "X", "XX"})

\* the branch of advise_your_bid that produces the result
advise_branch(your_hand, a) ==
    CASE a # <<>> /\ a[Len(a)] = "X" -> "Redouble"
      [] a # <<>> /\ a[Len(a)] # "X" /\ a[Len(a)] = "4NT" /\ major_fit_agreed(a) # "None" -> "RKCB"
      [] a # <<>> /\ a[Len(a)] = "4C" /\ nt_context_exists(a) -> "Gerber"
      [] OTHER ->
            IF real_calls(a) # <<>>
            THEN IF Len(a) % 2 = 1 THEN "Overcall" ELSE "Responder"
            ELSE "Opening"

slam_layer(your_hand, a) ==
    LET pr == partner_range_guess(a)
        min_tot == pr[1] + your_hand.hcp
        fit == major_fit_agreed(a)
    IN Opt(fit # "None" /\ min_tot >= 33, Suggestion("4NT", "RKCB (slam try)"))
    \o Opt(nt_context_exists(a) /\ min_tot >= 32,
           Suggestion("4NT", "Quantitative: invite 6NT (combined high totals)."))
    \o Opt(nt_context_exists(a) /\ min_tot >= 33, Suggestion("6NT", "Small slam tendency"))
    \o Opt(nt_context_exists(a) /\ min_tot >= 37, Suggestion("7NT", "Grand slam tendency"))

advise_your_bid(your_hand, a) ==
    LET branch == advise_branch(your_hand, a)
        last == real_calls(a)[Len(real_calls(a))]
    IN CASE branch = "Redouble" ->
                IF your_hand.hcp >= 10
                THEN <<Suggestion("XX", "Redouble with 10+ HCP after partner's double.")>>
                ELSE <<Suggestion("Bid best suit",
                                  "Runout after partner's double (not fully modeled).")>>
         [] branch = "RKCB" ->
                <<Suggestion(auto_reply_rkcb(your_hand.cards),
                             "Auto-reply to RKCB (4NT): showing aces.")>>
         [] branch = "Gerber" ->
                <<Suggestion(auto_reply_gerber(your_hand.cards),
                             "Auto-reply to Gerber (4C over NT): showing aces.")>>
         [] branch = "Overcall" -> overcall_suggestions(last, your_hand)
         [] branch = "Responder" ->
                responder_suggestions(last, your_hand, a) \o slam_layer(your_hand, a)
         [] branch = "Opening" -> opening_suggestions(your_hand)

----------------------------------------------------------------------------
(* Hands the model draws from: thirteen cards each, as parse_hand_string   *)
(* lists them (rank then suit).                                            *)

\* KQJ2.KQ3.QJ4.J52: 15 HCP, 4-3-3-3, no ace
Cards0 == <<"KS","QS","JS","2S", "KH","QH","3H", "QD","JD","4D", "JC","5C","2C">>
\* A8432.K75.Q6.952: 9 HCP, 5-3-2-3, one ace
Cards1 == <<"AS","8S","4S","3S","2S", "KH","7H","5H", "QD","6D", "9C","5C","2C">>
\* AK764.A52.83.J74: 12 HCP, 5-3-2-3, two aces
Cards2 == <<"AS","KS","7S","6S","4S", "AH","5H","2H", "8D","3D", "JC","7C","4C">>
\* A5.A9842.AK3.Q62: 17 HCP, 2-5-3-3, three aces
Cards3 == <<"AS","5S", "AH","9H","8H","4H","2H", "AD","KD","3D", "QC","6C","2C">>
\* AKQ.AKJ.AQ52.A43: 27 HCP, 3-3-4-3, four aces
Cards4 == <<"AS","KS","QS", "AH","KH","JH", "AD","QD","5D","2D", "AC","4C","3C">>
\* QJ9876.5.K43.972: 6 HCP, 6-1-3-3, no ace
CardsW == <<"QS","JS","9S","8S","7S","6S", "5H", "KD","4D","3D", "9C","7C","2C">>

\* AKQJ97.AK.AQ5.K4: 26 HCP, 6-2-3-2, three aces
Cards5 == <<"AS","KS","QS","JS","9S","7S", "AH","KH", "AD","QD","5D", "KC","4C">>
\* AK.AKQ52.KQ4.J32: 22 HCP, 2-5-3-3, two aces
Cards6 == <<"AS","KS", "AH","KH","QH","5H","2H", "KD","QD","4D", "JC","3C","2C">>
\* AKJ2.KQ3.AQ54.Q2: 21 HCP, 4-3-4-2, two aces
Cards7 == <<"AS","KS","JS","2S", "KH","QH","3H", "AD","QD","5D","4D", "QC","2C">>
\* KQ52.AJ43.KJ3.Q6: 16 HCP, 4-4-3-2, one ace
Cards8 == <<"KS","QS","5S","2S", "AH","JH","4H","3H", "KD","JD","3D", "QC","6C">>
\* KQJ9876.5.43.972: 6 HCP, 7-1-2-3, no ace
Cards9 == <<"KS","QS","JS","9S","8S","7S","6S", "5H", "4D","3D", "9C","7C","2C">>
\* K32.A5.Q7.KJ9843: 13 HCP, 3-2-2-6, one ace
Cards10 == <<"KS","3S","2S", "AH","5H", "QD","7D", "KC","JC","9C","8C","4C","3C">>
\* 9765.843.752.J32: 1 HCP, 4-3-3-3, no ace
Cards11 == <<"9S","7S","6S","5S", "8H","4H","3H", "7D","5D","2D", "JC","3C","2C">>

AdviseHands == {Hand(Cards0), Hand(Cards1), Hand(Cards2),
                Hand(Cards3), Hand(Cards4), Hand(CardsW),
                Hand(Cards5), Hand(Cards6), Hand(Cards7), Hand(Cards8),
                Hand(Cards9), Hand(Cards10), Hand(Cards11)}
LoopHands == {Hand(Cards2), Hand(Cards4), Hand(CardsW)}
\* the texts typed for them at run_loop's prompt
LoopTexts == {"AK764.A52.83.J74", "AKQ.AKJ.AQ52.A43", "QJ9876.5.K43.972"}

\* what a player types at run_loop's prompts ("" is the Enter key)
LoopInputs == {"", "pass", "2H", "4NT", "X"}
\* bids handed to BridgeCoachAgent._update_sequence
AgentBids == {"P", "1H", "2H", "2S"}
\* well-formed calls of the ledgers handed to advise_your_bid
AdviseCalls == {"Pass", "X", "XX", "1C", "1H", "1S", "1NT",
                "2C", "2H", "2NT", "3NT", "4C", "4NT"}

----------------------------------------------------------------------------
(* Seats *)

SEATS == <<"N", "E", "S", "W">>
NEXT(seat) ==
    CASE seat = "N" -> "E"
      [] seat = "E" -> "S"
      [] seat = "S" -> "W"
      [] seat = "W" -> "N"

\* list.index: the 0-based position of a seat
SeatIndex(seat) == (CHOOSE i \in 1..4 : SEATS[i] = seat) - 1

\* the attribute BridgeCoachAgent.__init__ never sets
Unset == -1

NoHand == Hand(<<>>)

\* no query has been answered since the ledger last changed
NoReply == [op |-> "None", user_hand |-> [hcp |-> 0, dist |-> <<0, 0, 0, 0>>],
            bid_string |-> "None", out |-> <<>>]

\* the ledger has not changed yet
NoChange == [op |-> "None", current_sequence |-> <<>>, bidder_index |-> 0,
             consecutive_passes |-> 0]

----------------------------------------------------------------------------
(* run_loop *)

\* loop_finished without the length test
loop_finished_no_length(p, n) == p >= 3

\* the test that ends the loop
loop_finished(p, n) == p >= 3 /\ n >= 4

\* lines 301-316: the call is recorded, passes counted, the loop left or the turn advanced
LoopRecord(call) ==
    LET p == IF call = "PASS" THEN passes + 1 ELSE 0
    IN /\ auction' = Append(auction, call)
       /\ passes' = p
       /\ IF loop_finished(p, Len(auction) + 1)
          THEN pc' = "finished" /\ turn' = turn
          ELSE pc' = "turn" /\ turn' = NEXT(turn)

\* lines 292-297: the advised seat's turn; the suggestions are shown, then input() waits
LoopAdvise ==
    /\ prog = "run_loop" /\ pc = "turn" /\ turn = you
    /\ Len(auction) < MaxLen
    /\ sugs' = advise_your_bid(your, auction)
    /\ pc' = IF IsRaised(sugs') THEN "crashed" ELSE "input"
    /\ UNCHANGED <<prog, you, dealer, your, hstr, turn, auction, passes,
                   bidder_index, current_sequence, consecutive_passes, trump_suit, ended,
                   reply, before>>

\* lines 297-301 and the loop's tail
LoopYourCall(inp) ==
    /\ prog = "run_loop" /\ pc = "input"
    /\ LoopRecord(IF Upper(inp) = "" THEN Upper(sugs[1].bid) ELSE Upper(inp))
    /\ UNCHANGED <<prog, you, dealer, your, hstr, sugs,
                   bidder_index, current_sequence, consecutive_passes, trump_suit, ended,
                   reply, before>>

\* lines 303-304 and the loop's tail
LoopOtherCall(inp) ==
    /\ prog = "run_loop" /\ pc = "turn" /\ turn # you
    /\ Len(auction) < MaxLen
    /\ LoopRecord(IF Upper(inp) = "" THEN "PASS" ELSE Upper(inp))
    /\ UNCHANGED <<prog, you, dealer, your, hstr, sugs,
                   bidder_index, current_sequence, consecutive_passes, trump_suit, ended,
                   reply, before>>

----------------------------------------------------------------------------
(* BridgeCoachAgent, streamlit_app.py *)

app_get_current_bidder == SEATS[(bidder_index % 4) + 1]

app_ends(seq, cp) == Len(seq) >= 4 /\ cp >= 3

\* _update_sequence with a pass counter that a bid does not reset
app_update_sequence_no_reset(bid) ==
    LET seq == Append(current_sequence, bid)
        cp == IF bid # "P" THEN consecutive_passes ELSE consecutive_passes + 1
    IN /\ prog = "streamlit_app"
       /\ Len(current_sequence) < MaxLen
       /\ current_sequence' = seq
       /\ consecutive_passes' = cp
       /\ trump_suit' =
             IF /\ bid \in {"1C","1D","1H","1S","2C","2D","2H","2S","3C","3D","3H","3S"}
                /\ Len(seq) > 1
                /\ LastChar(seq[Len(seq) - 1]) = LastChar(bid)
             THEN LastChar(bid)
             ELSE trump_suit
       /\ bidder_index' = bidder_index + 1
       /\ ended' = IF app_ends(seq, cp) THEN "True" ELSE "False"
       /\ reply' = NoReply
       /\ before' = [op |-> "_update_sequence", current_sequence |-> current_sequence,
                     bidder_index |-> bidder_index,
                     consecutive_passes |-> consecutive_passes]
       /\ UNCHANGED <<prog, you, dealer, your, hstr, turn, auction, passes, sugs, pc>>

app_update_sequence(bid) ==
    LET seq == Append(current_sequence, bid)
        cp == IF bid # "P" THEN 0 ELSE consecutive_passes + 1
    IN /\ prog = "streamlit_app"
       /\ Len(current_sequence) < MaxLen
       /\ current_sequence' = seq
       /\ consecutive_passes' = cp
       /\ trump_suit' =
             IF /\ bid \in {"1C","1D","1H","1S","2C","2D","2H","2S","3C","3D","3H","3S"}
                /\ Len(seq) > 1
                /\ LastChar(seq[Len(seq) - 1]) = LastChar(bid)
             THEN LastChar(bid)
             ELSE trump_suit
       /\ bidder_index' = bidder_index + 1
       /\ ended' = IF app_ends(seq, cp) THEN "True" ELSE "False"
       /\ reply' = NoReply
       /\ before' = [op |-> "_update_sequence", current_sequence |-> current_sequence,
                     bidder_index |-> bidder_index,
                     consecutive_passes |-> consecutive_passes]
       /\ UNCHANGED <<prog, you, dealer, your, hstr, turn, auction, passes, sugs, pc>>

----------------------------------------------------------------------------
(* BridgeCoachAgent, bridge_coach_agent.py *)

coach_get_current_bidder == SEATS[(bidder_index % 4) + 1]

coach_ends(seq, cp) == Len(seq) >= 4 /\ cp >= 3

\* consecutive_passes += 1 reads an attribute __init__ never set: AttributeError,
\* raised after the append and before bidder_index is advanced
coach_update_sequence(bid) ==
    LET seq == Append(current_sequence, bid)
        cp == IF bid # "P" THEN 0 ELSE consecutive_passes + 1
    IN /\ prog = "bridge_coach_agent"
       /\ Len(current_sequence) < MaxLen
       /\ current_sequence' = seq
       /\ IF bid = "P" /\ consecutive_passes = Unset
          THEN /\ ended' = "AttributeError"
               /\ UNCHANGED <<consecutive_passes, trump_suit, bidder_index>>
          ELSE /\ consecutive_passes' = cp
               /\ trump_suit' =
                     IF bid \in {"1S","1H","2S","2H","3S","3H","4S","4H",
                                 "1C","1D","2C","2D","3C","3D","4C","4D"}
                     THEN LastChar(bid)
                     ELSE trump_suit
               /\ bidder_index' = bidder_index + 1
               /\ ended' = IF coach_ends(seq, cp) THEN "True" ELSE "False"
       /\ reply' = NoReply
       /\ UNCHANGED <<prog, you, dealer, your, hstr, turn, auction, passes, sugs, pc, before>>

----------------------------------------------------------------------------
(* BridgeCoachAgent.suggest_bid, bridge_coach_agent.py *)

\* list.index: the 1-based position of the first element equal to x
FirstIndex(seq, x) == CHOOSE i \in 1..Len(seq) : seq[i] = x /\ \A j \in 1..(i - 1) : seq[j] # x

\* the calls of a sequence other than 'P', in order
Meaningful(seq) == SelectSeq(seq, LAMBDA b : b # "P")

coach_get_partner_pos(pos) ==
    CASE pos = "N" -> "S"
      [] pos = "S" -> "N"
      [] pos = "E" -> "W"
      [] OTHER -> "E"

\* (last_bid, last_bidder, is_partner_last); the bidder is counted from the
\* dealer to the first place the call's string stands at
coach_get_last_bid_info ==
    LET meaningful_bids == Meaningful(current_sequence)
    IN IF meaningful_bids = <<>>
       THEN [last_bid |-> "None", last_bidder |-> "None", is_partner_last |-> FALSE]
       ELSE LET last_bid == meaningful_bids[Len(meaningful_bids)]
                bid_index_in_sequence == FirstIndex(current_sequence, last_bid) - 1
                last_bidder == SEATS[((SeatIndex(dealer) + bid_index_in_sequence) % 4) + 1]
            IN [last_bid |-> last_bid, last_bidder |-> last_bidder,
                is_partner_last |-> (last_bidder = "S" \/ last_bidder = coach_get_partner_pos("S"))]

Max0(n) == IF n > 0 THEN n ELSE 0

\* the hand dictionary of get_hand_input
UserHand(h) == [hcp |-> h.hcp, dist |-> h.shape]

\* the first of sorted(..., reverse=True): the longest suit, the later letter on a tie
BestSuit(dist) ==
    LET names == <<"S", "H", "D", "C">>
        i == CHOOSE k \in 1..4 : \A j \in 1..4 :
                 dist[k] > dist[j] \/ (dist[k] = dist[j] /\ k <= j)
    IN [len |-> dist[i], suit |-> names[i]]

\* what suggest_bid returns, <<bid, reason>>; choice is what random.choice gave
suggest_bid_returns(user_hand, choice) ==
    LET h == user_hand.hcp
        dist == user_hand.dist
        tp == h + Max0(dist[1] - 4) + Max0(dist[2] - 4) + Max0(dist[3] - 4) + Max0(dist[4] - 4)
        info == coach_get_last_bid_info
        last_bid == info.last_bid
        last_bidder == info.last_bidder
        is_partner_last == info.is_partner_last
        maxdist == BestSuit(dist).len
        partner_suit == LastChar(last_bid)
        p_idx == CASE partner_suit = "S" -> 1 [] partner_suit = "H" -> 2
                   [] partner_suit = "D" -> 3 [] OTHER -> 4
        combined_tp == 12 + tp
        key_cards == h \div 7
        phase4 ==
            IF last_bidder \in {"E", "W"} /\ last_bid # "P"
            THEN IF h >= 12 /\ choice
                 THEN <<"X", "Bid Takeout Double. You have 12+ HCP, shortage in opponent's suit implied.">>
                 ELSE IF BestSuit(dist).len >= 5 /\ h >= 8
                 THEN <<"1" \o BestSuit(dist).suit,
                        "Overcall in your best 5+ card suit, 1" \o BestSuit(dist).suit \o " (8+ TP).">>
                 ELSE <<"Pass", "Pass. Hand too weak or bid too high to compete safely.">>
            ELSE <<"Pass", "Pass. No clear action is suggested by the SAYC system at this point.">>
        newsuit ==
            IF h >= 6
            THEN IF last_bid \in {"1C", "1D"} /\ dist[1] >= 4
                 THEN <<"1S", "Bid your 4+ card Major, 1 Spades (forcing).">>
                 ELSE IF last_bid \in {"1C", "1D"} /\ dist[2] >= 4
                 THEN <<"1H", "Bid your 4+ card Major, 1 Hearts (forcing).">>
                 ELSE <<"1NT", "No fit, 6-9 HCP, balanced. Non-forcing 1NT.">>
            ELSE phase4
        phase3 ==
            IF is_partner_last /\ last_bid \in {"1C", "1D", "1H", "1S"}
            THEN IF dist[p_idx] >= 3 /\ combined_tp >= 25
                 THEN <<"4" \o partner_suit,
                        "Bid game: 4" \o partner_suit \o ". You have a fit and 25+ combined TP.">>
                 ELSE IF dist[p_idx] >= 3 /\ combined_tp >= 22
                 THEN <<"3" \o partner_suit,
                        "Bid 3" \o partner_suit \o " (Invitational). You have a fit and 22-24 combined TP.">>
                 ELSE IF dist[p_idx] >= 3 /\ h >= 6
                 THEN <<"2" \o partner_suit,
                        "Simple Non-forcing Raise to 2" \o partner_suit \o " (6-9 TP).">>
                 ELSE newsuit
            ELSE phase4
        blackwood ==
            IF last_bid = "4NT" /\ trump_suit # "None"
            THEN IF key_cards \in {0, 3} THEN <<"5C", "Responding to RKCB: 0 or 3 Key Cards.">>
                 ELSE IF key_cards \in {1, 4} THEN <<"5D", "Responding to RKCB: 1 or 4 Key Cards.">>
                 ELSE IF key_cards = 2 THEN <<"5H", "Responding to RKCB: 2 Key Cards (simplified).">>
                 ELSE phase3
            ELSE phase3
        phase2 ==
            IF is_partner_last
            THEN IF last_bid = "1NT"
                 THEN IF h < 8
                      THEN <<"Pass", "Pass. You lack the 8 HCP minimum for a forcing response to 1NT.">>
                      ELSE IF dist[1] >= 4 \/ dist[2] >= 4
                      THEN <<"2C", "Bid 2 Clubs (Stayman) to ask for partner's 4-card Majors.">>
                      ELSE IF dist[2] >= 5
                      THEN <<"2D", "Bid 2 Diamonds (Jacoby Transfer) to show 5+ Hearts.">>
                      ELSE IF dist[1] >= 5
                      THEN <<"2H", "Bid 2 Hearts (Jacoby Transfer) to show 5+ Spades.">>
                      ELSE IF h >= 13
                      THEN <<"3NT", "Bid 3NT for game. You have 13+ HCP and a balanced hand without a Major fit.">>
                      ELSE IF h >= 10 /\ h <= 12
                      THEN <<"2NT", "Bid 2NT (Invitational). You have 10-12 HCP for a possible 3NT.">>
                      ELSE blackwood
                 ELSE blackwood
            ELSE phase3
    IN IF last_bid = "None"
       THEN IF h >= 15 /\ h <= 17 /\ maxdist <= 5
            THEN <<"1NT", "Open 1NT. You have a balanced hand with 15-17 HCP.">>
            ELSE IF h >= 12 /\ dist[1] >= 5 THEN <<"1S", "Open 1 Spades (5+ cards, 12+ HCP).">>
            ELSE IF h >= 12 /\ dist[2] >= 5 THEN <<"1H", "Open 1 Hearts (5+ cards, 12+ HCP).">>
            ELSE IF h >= 12 /\ dist[3] >= 4 THEN <<"1D", "Open 1 Diamond (4+ cards, 12+ HCP).">>
            ELSE IF h >= 12 /\ dist[4] >= 3 THEN <<"1C", "Open 1 Club (3+ cards, 12+ HCP).">>
            ELSE <<"Pass", "You have less than 12 HCP, so the correct opening call is Pass.">>
       ELSE phase2

\* hands typed into get_hand_input
SuggestHands == {UserHand(Hand(Cards0)), UserHand(Hand(Cards1)),
                 UserHand(Hand(Cards2)), UserHand(Hand(Cards4))}

\* suggest_bid is called and returns; random.choice may give either value
suggest_bid(user_hand) ==
    /\ prog = "bridge_coach_agent"
    /\ \E choice \in BOOLEAN :
          reply' = [op |-> "suggest_bid", user_hand |-> user_hand, bid_string |-> "None",
                    out |-> suggest_bid_returns(user_hand, choice)]
    /\ UNCHANGED <<prog, you, dealer, your, hstr, turn, auction, passes, sugs, pc,
                   bidder_index, current_sequence, consecutive_passes, trump_suit, ended,
                   before>>

----------------------------------------------------------------------------
(* BridgeCoachAgent.explain_bid, streamlit_app.py *)

\* (last_bid, last_bidder); self.bidders[k] with k counted back from
\* bidder_index, which is never reduced modulo 4: a list index outside -4..3
\* raises IndexError
app_get_last_bid_info ==
    LET meaningful_bids == Meaningful(current_sequence)
    IN IF meaningful_bids = <<>>
       THEN [last_bid |-> "None", last_bidder |-> "None"]
       ELSE LET last_bid == meaningful_bids[Len(meaningful_bids)]
                last_bid_index == FirstIndex(current_sequence, last_bid) - 1
                k == bidder_index - (Len(current_sequence) - last_bid_index)
            IN [last_bid |-> last_bid,
                last_bidder |-> IF k \in -4..3 THEN SEATS[(k % 4) + 1] ELSE "IndexError"]

\* 'X' in bid_string
HasX(bid_string) == \E i \in 1..Len(bid_string) : SubSeq(bid_string, i, i) = "X"

\* the dictionary explain_bid returns: <<meaning, hcp_range, implied_shape, convention>>
explain_bid_returns(bid_string, current_bidder) ==
    LET info == app_get_last_bid_info
        last_bid == info.last_bid
        last_bidder == info.last_bidder
        is_opening == Meaningful(current_sequence) = <<>>
        is_overcall == /\ current_bidder \in {"E", "W"}
                       /\ last_bidder = (IF current_bidder = "E" THEN "N" ELSE "S")
        is_response == current_bidder \in {"N", "S"} /\ last_bidder \in {"N", "S"}
    IN IF last_bidder = "IndexError" THEN <<"IndexError">>
       ELSE IF last_bid = "1NT" /\ is_response /\ bid_string = "2C"
       THEN <<"Artificial, asking for 4-card major suits.", "8+ HCP",
              "At least one 4-card Major.", "Stayman">>
       ELSE IF last_bid = "1NT" /\ is_response /\ bid_string = "2D"
       THEN <<"Artificial, forcing 2H. Promises 5+ Hearts.", "8+ HCP",
              "5+ Hearts.", "Jacoby Transfer to Hearts">>
       ELSE IF last_bid = "1NT" /\ is_response /\ bid_string = "2H"
       THEN <<"Artificial, forcing 2S. Promises 5+ Spades.", "8+ HCP",
              "5+ Spades.", "Jacoby Transfer to Spades">>
       ELSE IF bid_string = "4NT" /\ trump_suit # "None"
       THEN <<"Asking for Key Cards (4 Aces + " \o trump_suit \o " King).", "Slam interest.",
              "Unspecified.", "Key Card Blackwood (RKCB 1430)">>
       ELSE IF bid_string = "4NT" /\ last_bid \in {"1NT", "2NT", "3NT"}
       THEN <<"Invitational to 6NT.", "18-19 HCP (after 1NT)", "Unspecified.", "Quantitative NT">>
       ELSE IF bid_string = "4C" /\ last_bid \in {"1NT", "2NT", "3NT"}
       THEN <<"Asking for Aces (after a NT agreement).", "Slam interest.", "Unspecified.", "Gerber">>
       ELSE IF is_opening /\ bid_string = "1NT"
       THEN <<"Natural, Balanced Opening.", "15-17 HCP", "Balanced", "None">>
       ELSE IF is_opening /\ bid_string \in {"1C", "1D", "1H", "1S"}
       THEN <<"Natural, showing " \o LastChar(bid_string) \o ".", "12+ HCP",
              "5+ cards in Major, 4+ in Minor (or 3+ in C).", "None">>
       ELSE IF ~is_opening /\ is_overcall /\ HasX(bid_string)
       THEN <<"Takeout Double", "12+ TP",
              "Shortage in opponent's suit, support for unbid suits.", "None">>
       ELSE IF ~is_opening /\ is_overcall
       THEN <<"Natural Overcall in " \o LastChar(bid_string) \o ".", "8-16 TP",
              "Good 5+ card suit.", "None">>
       ELSE <<"Natural, non-forcing.", "Variable.", "Unspecified.", "None">>

\* bids typed for the seat to act, upper-cased, and handed to explain_bid
ExplainBids == {"P", "1H", "2C", "4NT", "X"}

\* explain_bid followed by _update_sequence on the same bid
explain_bid_recording(bid_string) ==
    /\ prog = "streamlit_app"
    /\ Len(current_sequence) < MaxLen
    /\ reply' = [op |-> "explain_bid", user_hand |-> NoReply.user_hand,
                 bid_string |-> bid_string,
                 out |-> explain_bid_returns(bid_string, app_get_current_bidder)]
    /\ current_sequence' = Append(current_sequence, bid_string)
    /\ bidder_index' = bidder_index + 1
    /\ UNCHANGED <<prog, you, dealer, your, hstr, turn, auction, passes, sugs, pc,
                   consecutive_passes, trump_suit, ended, before>>

\* explain_bid is called for the seat to act and returns
explain_bid(bid_string) ==
    /\ prog = "streamlit_app"
    /\ reply' = [op |-> "explain_bid", user_hand |-> NoReply.user_hand,
                 bid_string |-> bid_string,
                 out |-> explain_bid_returns(bid_string, app_get_current_bidder)]
    /\ UNCHANGED <<prog, you, dealer, your, hstr, turn, auction, passes, sugs, pc,
                   bidder_index, current_sequence, consecutive_passes, trump_suit, ended,
                   before>>

----------------------------------------------------------------------------
(* The drivers' specification *)

InitLoop ==
    /\ prog = "run_loop"
    /\ you \in {"N", "E", "S", "W"}
    /\ dealer \in {"N", "E", "S", "W"}
    /\ your \in LoopHands
    /\ hstr \in LoopTexts
    /\ your = Hand(parse_hand_string(hstr))
    /\ turn = dealer
    /\ auction = <<>>
    /\ passes = 0
    /\ sugs = <<>>
    /\ pc = "turn"
    /\ bidder_index = 0 /\ current_sequence = <<>> /\ consecutive_passes = 0
    /\ trump_suit = "None" /\ ended = "None"
    /\ reply = NoReply /\ before = NoChange

InitAgent ==
    /\ prog \in {"streamlit_app", "bridge_coach_agent"}
    /\ dealer \in {"N", "E", "S", "W"}
    /\ bidder_index = SeatIndex(dealer)
    /\ current_sequence = <<>>
    /\ consecutive_passes = IF prog = "streamlit_app" THEN 0 ELSE Unset
    /\ trump_suit = "None"
    /\ ended = "None"
    /\ you = "S" /\ your = NoHand /\ turn = dealer /\ auction = <<>>
    /\ passes = 0 /\ sugs = <<>> /\ pc = "none"
    /\ reply = NoReply /\ before = NoChange /\ hstr = ""

Init == InitLoop \/ InitAgent

Next ==
    \/ LoopAdvise
    \/ \E inp \in LoopInputs : LoopYourCall(inp)
    \/ \E inp \in LoopInputs : LoopOtherCall(inp)
    \/ \E bid \in AgentBids : app_update_sequence(bid)
    \/ \E bid \in AgentBids : coach_update_sequence(bid)
    \/ \E user_hand \in SuggestHands : suggest_bid(user_hand)
    \/ \E bid_string \in ExplainBids : explain_bid(bid_string)

Spec == Init /\ [][Next]_vars

----------------------------------------------------------------------------
(* advise_your_bid as a function of (hand, ledger): the ledger grows by one *)
(* well-formed call and the seat next to act asks for advice.               *)

AdviseInit ==
    /\ prog = "advise"
    /\ your \in AdviseHands
    /\ auction = <<>>
    /\ sugs = advise_your_bid(your, <<>>)
    /\ hstr = ""
    /\ you = "S" /\ dealer = "S" /\ turn = "S" /\ passes = 0 /\ pc = "none"
    /\ bidder_index = 0 /\ current_sequence = <<>> /\ consecutive_passes = 0
    /\ trump_suit = "None" /\ ended = "None"
    /\ reply = NoReply /\ before = NoChange

AdviseCall(call) ==
    /\ prog = "advise"
    /\ Len(auction) < MaxAdviseLen
    /\ auction' = Append(auction, call)
    /\ sugs' = advise_your_bid(your, auction')
    /\ UNCHANGED <<prog, you, dealer, your, hstr, turn, passes, pc,
                   bidder_index, current_sequence, consecutive_passes, trump_suit, ended,
                   reply, before>>

AdviseNext == \E call \in AdviseCalls : AdviseCall(call)

AdviseSpec == AdviseInit /\ [][AdviseNext]_vars

----------------------------------------------------------------------------
(* Vocabulary of the properties *)

\* the ledger of the running program and its Pass call
Ledger == IF prog \in {"streamlit_app", "bridge_coach_agent"} THEN current_sequence ELSE auction
PassCall ==
    CASE prog = "run_loop" -> "PASS"
      [] prog = "advise" -> "Pass"
      [] OTHER -> "P"
PassCount == IF prog \in {"streamlit_app", "bridge_coach_agent"} THEN consecutive_passes ELSE passes

\* the program has reported the auction finished
ReportedFinished ==
    IF prog = "run_loop" THEN pc = "finished" ELSE ended = "True"

\* at least 4 calls and the last 3 are Pass
ThreePassEnd(seq, p) ==
    /\ Len(seq) >= 4
    /\ \A i \in (Len(seq) - 2)..Len(seq) : seq[i] = p

RECURSIVE TrailingPasses(_, _)
TrailingPasses(seq, p) ==
    IF seq = <<>> \/ seq[Len(seq)] # p THEN 0
    ELSE 1 + TrailingPasses(SubSeq(seq, 1, Len(seq) - 1), p)

\* a Contract call: level 1-7 with a suit or no-trump; its rank in the auction order
Denoms == <<"C", "D", "H", "S", "NT">>
IsContract(c) ==
    /\ Len(c) \in {2, 3}
    /\ FirstChar(c) \in {"1", "2", "3", "4", "5", "6", "7"}
    /\ \E d \in 1..5 : SubSeq(c, 2, Len(c)) = Denoms[d]
ContractRank(c) ==
    5 * (CHOOSE l \in 1..7 : FirstChar(c) = <<"1","2","3","4","5","6","7">>[l])
      + (CHOOSE d \in 1..5 : SubSeq(c, 2, Len(c)) = Denoms[d])

RECURSIVE SeatAfter(_, _)
SeatAfter(seat, n) == IF n = 0 THEN seat ELSE SeatAfter(NEXT(seat), n - 1)

\* the seat that made the i-th call of the ledger
Caller(i) == SeatAfter(dealer, (i - 1) % 4)
Partner(seat) == NEXT(NEXT(seat))

\* the seat the program says is to bid
SeatToBid ==
    CASE prog = "streamlit_app" -> app_get_current_bidder
      [] prog = "bridge_coach_agent" -> coach_get_current_bidder
      [] OTHER -> turn

----------------------------------------------------------------------------
(* C1 *)

----------------------------------------------------------------------------
(* C2 *)

\* C2: the auction is never reported finished while the ledger holds only
\* Pass calls.
C2_NotFinishedWhileAllPass ==
    ReportedFinished => \E i \in 1..Len(Ledger) : Ledger[i] # PassCall

----------------------------------------------------------------------------
(* C3 *)

\* C3: once the three-consecutive-pass termination condition is reached
\* (three passes after a call that is not a Pass, so that the statement does
\* not rest on the all-pass case of C2), no later step changes the ledger or
\* the pass count.
C3_FinishedAbsorbing ==
    [][(/\ ThreePassEnd(Ledger, PassCall)
        /\ \E i \in 1..Len(Ledger) : Ledger[i] # PassCall)
          => (Ledger' = Ledger /\ PassCount' = PassCount)]_vars

----------------------------------------------------------------------------
(* C4 *)

\* C4: in every reachable ledger the Contract calls are strictly ascending in
\* rank (a Contract call that does not outrank the previous one is rejected).
C4_ContractsAscending ==
    \A i, j \in 1..Len(Ledger) :
        (i < j /\ IsContract(Ledger[i]) /\ IsContract(Ledger[j]))
            => ContractRank(Ledger[i]) < ContractRank(Ledger[j])

----------------------------------------------------------------------------
(* C5 *)

\* C5: in every state that is not finished, the seat to bid is the dealer
\* advanced through N,E,S,W by (number of recorded calls mod 4).
C5_SeatFollowsRotation ==
    (prog # "advise" /\ ~ReportedFinished)
        => SeatToBid = SeatAfter(dealer, Len(Ledger) % 4)

----------------------------------------------------------------------------
(* C6 *)

\* C6: from a fresh ledger every append succeeds and leaves the
\* consecutive-pass counter equal to the number of trailing Pass calls.
C6_PassCounterIsTrailingPasses ==
    prog \in {"run_loop", "bridge_coach_agent"}
        => /\ ended # "AttributeError"
           /\ Ledger # <<>> => PassCount = TrailingPasses(Ledger, PassCall)

----------------------------------------------------------------------------
(* C7 *)

\* position in the ledger of the last call that is not Pass, X or XX
LastRealIndex(a) ==
    CHOOSE i \in 1..Len(a) :
        /\ a[i] \notin {"Pass", "X", "XX"}
        /\ \A j \in (i+1)..Len(a) : a[j] \in {"Pass", "X", "XX"}

\* how many seats before the advised seat the i-th call was made:
\* 1 right-hand opponent, 2 partner, 3 left-hand opponent, 0 the seat itself
SeatsBack(a, i) == (Len(a) + 1 - i) % 4

\* C7: when advise applies the responder table, the last non-Pass call was
\* made by the advised seat's partner; when it applies the overcall table,
\* it was made by an opponent.
C7_TableMatchesCaller ==
    (prog = "advise" /\ real_calls(auction) # <<>>)
        => LET back == SeatsBack(auction, LastRealIndex(auction))
               branch == advise_branch(your, auction)
           IN /\ branch = "Responder" => back = 2
              /\ branch = "Overcall" => back \in {1, 3}

----------------------------------------------------------------------------
(* C8 *)

\* C8: in run_loop, when it is the advised seat's turn and every recorded
\* call is a pass, the suggestions shown are the opening suggestions.
C8_OpeningAfterPasses ==
    (/\ prog = "run_loop"
     /\ pc = "input"
     /\ \A i \in 1..Len(auction) : auction[i] = "PASS")
        => sugs = opening_suggestions(your)

----------------------------------------------------------------------------
(* C9 *)

\* C9: in run_loop, an ace-asking auto-reply is shown only when the asking
\* call (the last call) was made by the advised seat's own partnership.
C9_AskingReplyOnlyToPartnership ==
    (/\ prog = "run_loop"
     /\ pc = "input"
     /\ advise_branch(your, auction) \in {"RKCB", "Gerber"})
        => Caller(Len(auction)) \in {you, Partner(you)}

----------------------------------------------------------------------------
(* C10 *)

RKCBReply == <<"5C", "5D", "5H", "5S", "5C">>
GerberReply == <<"4D", "4H", "4S", "4NT", "4D">>

Aces(cards) == Cardinality({i \in 1..Len(cards) : FirstChar(cards[i]) = "A"})

MajorRaised(a) == \E i \in 1..Len(a) : a[i] \in {"2H", "3H", "4H", "2S", "3S", "4S"}
NoTrumpBid(a) == \E i \in 1..Len(a) : a[i] \in {"1NT", "2NT", "3NT"}

\* C10: after a last call of 4NT with a major-suit fit shown, advise returns
\* exactly one suggestion, fixed by the ace count: 0->5C, 1->5D, 2->5H, 3->5S,
\* 4->5C; after a last call of 4C with a no-trump call in the ledger:
\* 0->4D, 1->4H, 2->4S, 3->4NT, 4->4D.  The replies for 0..3 aces differ
\* pairwise and 4 aces reuses the 0-ace reply (two hands get the same reply
\* exactly when their ace counts are equal or are 0 and 4; a fact of the
\* hands alone, compared once per hand, on the empty ledger).
C10_AceReplyTable ==
    prog = "advise" =>
        /\ (auction # <<>> /\ auction[Len(auction)] = "4NT" /\ MajorRaised(auction))
              => (Len(sugs) = 1 /\ sugs[1].bid = RKCBReply[Aces(your.cards) + 1])
        /\ (auction # <<>> /\ auction[Len(auction)] = "4C" /\ NoTrumpBid(auction))
              => (Len(sugs) = 1 /\ sugs[1].bid = GerberReply[Aces(your.cards) + 1])
        /\ (auction = <<>>) =>
              \A other \in AdviseHands :
                  LET a1 == Aces(your.cards)
                      a2 == Aces(other.cards)
                      same == {a1, a2} = {0, 4} \/ a1 = a2
                  IN /\ (auto_reply_rkcb(your.cards) = auto_reply_rkcb(other.cards)) <=> same
                     /\ (auto_reply_gerber(your.cards) = auto_reply_gerber(other.cards)) <=> same

\* the four-ace hand has answered 4NT, after a raise to 2H, with the 0-ace reply
C10_FourAcesReply ==
    /\ prog = "advise"
    /\ Aces(your.cards) = 4
    /\ auction = <<"1H", "2H", "4NT">>
    /\ sugs = <<Suggestion("5C", "Auto-reply to RKCB (4NT): showing aces.")>>

----------------------------------------------------------------------------
(* C11, C12 *)

Bids(s) == {s[i].bid : i \in 1..Len(s)}

\* C11: with the ledger ["1NT"] and a hand of at least 8 points, advise
\* includes the transfer to a major of five or more cards: 2D for hearts,
\* 2H for spades.
C11_TransferOverOneNT ==
    (prog = "advise" /\ auction = <<"1NT">> /\ your.hcp >= 8) =>
        /\ (your.shape[2] >= 5) => ("2D" \in Bids(sugs))
        /\ (your.shape[1] >= 5) => ("2H" \in Bids(sugs))

\* C12: advise never fails: for every hand and every ledger of well-formed
\* calls it returns a non-empty list of suggestions.
C12_AdviseNeverFails ==
    prog = "advise" => (~IsRaised(sugs) /\ Len(sugs) >= 1)

----------------------------------------------------------------------------
(* C13 *)

\* C13: the advisory query is deterministic: asked again with the same hand
\* on the same ledger, suggest_bid returns the same suggestion, the takeout
\* double included.
C13_SameQuerySameAnswer ==
    [][(/\ reply.op = "suggest_bid" /\ reply'.op = "suggest_bid"
        /\ reply'.user_hand = reply.user_hand
        /\ UNCHANGED <<dealer, current_sequence, trump_suit>>)
       => reply'.out = reply.out]_vars

----------------------------------------------------------------------------
(* C14 *)

\* a step in which advise_your_bid, suggest_bid or explain_bid is asked and answers
QueryStep ==
    \/ pc = "turn" /\ pc' \in {"input", "crashed"}
    \/ reply'.op \in {"suggest_bid", "explain_bid"}

\* C14: advisory and explanation queries leave the ledger unchanged: the
\* call sequence, the seat to bid, the pass count and the recorded trump suit
\* are the same after advise_your_bid, suggest_bid or explain_bid as before.
C14_QueriesLeaveLedger ==
    [][QueryStep => UNCHANGED <<auction, turn, passes, current_sequence,
                                bidder_index, consecutive_passes, trump_suit>>]_vars

\* explain_bid has explained East's double of North's 1H, and the ledger
\* still holds the 1H alone
C14_ExplainedDouble ==
    /\ prog = "streamlit_app"
    /\ dealer = "N"
    /\ current_sequence = <<"1H">>
    /\ bidder_index = 1 /\ consecutive_passes = 0 /\ trump_suit = "None"
    /\ reply.op = "explain_bid"
    /\ reply.bid_string = "X"
    /\ reply.out[1] = "Takeout Double"

----------------------------------------------------------------------------
(* C15 *)

\* C15: on the empty ledger a hand of 22 or more points gets exactly one
\* suggestion, the strong opening 2C, whatever its shape.
C15_StrongHandOpensTwoClubs ==
    (prog = "advise" /\ auction = <<>> /\ your.hcp >= 22) =>
        (Len(sugs) = 1 /\ sugs[1].bid = "2C")

\* the unbalanced 26-point hand with six spades has been advised 2C alone
C15_SixSpadesTwoClubs ==
    /\ prog = "advise"
    /\ auction = <<>>
    /\ your.hcp = 26 /\ your.shape = <<6, 2, 3, 2>>
    /\ sugs = <<Suggestion("2C", "22+ HCP - strong, artificial, forcing opening.")>>

----------------------------------------------------------------------------
(* C16 *)

\* the classes the opening list is ordered by
OpeningClass(b) ==
    CASE b = "2C" -> 0
      [] b \in {"1NT", "2NT"} -> 1
      [] b \in {"1S", "1H"} -> 2
      [] b \in {"1D", "1C"} -> 3
      [] b \in {"2H", "2S", "3H", "3S"} -> 4
      [] b = "Pass" -> 5
      [] OTHER -> 6

SuitOpenings == {"1S", "1H", "1D", "1C", "2H", "2S", "3H", "3S"}

\* C16: the opening suggestion list holds no call twice and is ordered 2C,
\* no-trump openings, 1-level majors, 1-level minors, preempts, Pass last;
\* every balanced hand of 15-17 points gets 1NT, labelled 15-17, before every
\* suit opening.
C16_OpeningListOrdered ==
    (prog = "advise" /\ advise_branch(your, auction) = "Opening") =>
        /\ \A i, j \in 1..Len(sugs) : i < j =>
              /\ sugs[i].bid # sugs[j].bid
              /\ OpeningClass(sugs[i].bid) <= OpeningClass(sugs[j].bid)
        /\ \A i \in 1..Len(sugs) : OpeningClass(sugs[i].bid) <= 5
        /\ (is_balanced(your.shape) /\ your.hcp >= 15 /\ your.hcp <= 17) =>
              \E i \in 1..Len(sugs) :
                  /\ sugs[i] = Suggestion("1NT", "15-17 HCP, balanced; no 5-card major.")
                  /\ \A j \in 1..Len(sugs) : sugs[j].bid \in SuitOpenings => i < j

\* the balanced 17-point hand with five hearts has been advised 1NT, then 1H,
\* after two passes
C16_OneNTBeforeOneHeart ==
    /\ prog = "advise"
    /\ auction = <<"Pass", "Pass">>
    /\ your.hcp = 17 /\ your.shape = <<2, 5, 3, 3>>
    /\ Len(sugs) = 2 /\ sugs[1].bid = "1NT" /\ sugs[2].bid = "1H"

----------------------------------------------------------------------------
(* C17 *)

\* the places of the partner's calls: two seats before the seat to act
PartnerPlaces(a) == {i \in 1..Len(a) : (Len(a) + 1 - i) % 4 = 2 /\ a[i] # "Pass"}

\* the partner's most recent call other than Pass
PartnerLastCall(a) ==
    LET i == CHOOSE k \in PartnerPlaces(a) : \A j \in PartnerPlaces(a) : j <= k
    IN a[i]

\* C17: the partnership point estimate used by advise is the table band of
\* the partner's most recent non-Pass call, also when other seats have passed
\* or called after the partner: after partner's 1NT and a pass it is (15, 17).
C17_EstimateFromPartnersCall ==
    (/\ prog = "advise"
     /\ advise_branch(your, auction) = "Responder"
     /\ PartnerPlaces(auction) # {}) =>
        partner_range_guess(auction) = partner_range_guess(<<PartnerLastCall(auction)>>)

----------------------------------------------------------------------------
(* C18 *)

\* the levels a suit was bid at
LevelsBid(a, suit) ==
    {FirstChar(a[i]) : i \in {k \in 1..Len(a) :
         Len(a[k]) = 2 /\ LastChar(a[k]) = suit /\ FirstChar(a[k]) \in {"1","2","3","4","5","6","7"}}}

BidAtTwoLevels(a, suit) == Cardinality(LevelsBid(a, suit)) >= 2

\* C18: a trump suit is agreed only when some major has been bid at two
\* distinct levels, and is none otherwise: a single bid of a suit never
\* establishes a trump suit.
C18_TrumpNeedsTwoLevels ==
    prog = "advise" =>
        /\ major_fit_agreed(auction) \in {"H", "S"}
              => BidAtTwoLevels(auction, major_fit_agreed(auction))
        /\ major_fit_agreed(auction) = "None"
              => (~BidAtTwoLevels(auction, "H") /\ ~BidAtTwoLevels(auction, "S"))

----------------------------------------------------------------------------
(* C19 *)

\* the combined minimum a layered slam suggestion stands for: the invitation
\* 32, the slam tries at the small-slam threshold 33, the grand slam 37
SlamStrength(s) ==
    CASE s.reason = "Quantitative: invite 6NT (combined high totals)." -> 32
      [] s.reason = "RKCB (slam try)" -> 33
      [] s.reason = "Small slam tendency" -> 33
      [] s.reason = "Grand slam tendency" -> 37
      [] OTHER -> 0

IsSlamLayered(s) == SlamStrength(s) > 0

\* C19: in a Response context the slam layer is additive and ordered: the
\* responder suggestions come first, unchanged, and the layered ones follow in
\* ascending strength (invitation at 32, small slam at 33, grand slam at 37),
\* a stronger one never before a weaker one; in the other contexts no slam
\* suggestion is layered.
C19_SlamLayerAdditiveOrdered ==
    (prog = "advise" /\ ~IsRaised(sugs)) =>
        IF advise_branch(your, auction) = "Responder"
        THEN LET base == responder_suggestions(real_calls(auction)[Len(real_calls(auction))],
                                               your, auction)
                 n == Len(base)
             IN /\ Len(sugs) >= n
                /\ SubSeq(sugs, 1, n) = base
                /\ \A i \in (n + 1)..Len(sugs) : IsSlamLayered(sugs[i])
                /\ \A i, j \in (n + 1)..Len(sugs) :
                      i < j => SlamStrength(sugs[i]) <= SlamStrength(sugs[j])
        ELSE \A i \in 1..Len(sugs) : ~IsSlamLayered(sugs[i])

----------------------------------------------------------------------------
(* The ledger with undoLast().  The repository has no undo operation: it is *)
(* modelled from the specification's Auction Ledger (removes the most       *)
(* recent call, recomputes current seat and pass-count by replay; no-op on  *)
(* an empty ledger) over the fields of streamlit_app.py's BridgeCoachAgent. *)

undoLast ==
    LET seq == SubSeq(current_sequence, 1, Len(current_sequence) - 1)
        cp == TrailingPasses(seq, "P")
    IN /\ prog = "streamlit_app"
       /\ before' = [op |-> "undoLast", current_sequence |-> current_sequence,
                     bidder_index |-> bidder_index,
                     consecutive_passes |-> consecutive_passes]
       /\ IF current_sequence = <<>>
          THEN UNCHANGED <<current_sequence, bidder_index, consecutive_passes, ended>>
          ELSE /\ current_sequence' = seq
               /\ bidder_index' = SeatIndex(dealer) + Len(seq)
               /\ consecutive_passes' = cp
               /\ ended' = IF seq = <<>> THEN "None"
                           ELSE IF app_ends(seq, cp) THEN "True" ELSE "False"
       /\ reply' = NoReply
       /\ UNCHANGED <<prog, you, dealer, your, hstr, turn, auction, passes, sugs, pc, trump_suit>>

UndoInit == InitAgent /\ prog = "streamlit_app"

UndoNext ==
    \/ \E bid \in AgentBids : app_update_sequence(bid)
    \/ undoLast

UndoSpec == UndoInit /\ [][UndoNext]_vars

----------------------------------------------------------------------------
(* C20 *)

\* C20: undoLast() right after a successful append restores the ledger: the
\* call sequence, the seat to bid and the consecutive-pass count are those
\* from before the append; undoLast() on an empty ledger changes nothing.
C20_UndoRestoresLedger ==
    [][(before'.op = "undoLast") =>
          /\ (before.op = "_update_sequence") =>
                /\ current_sequence' = before.current_sequence
                /\ SEATS[(bidder_index' % 4) + 1] = SEATS[(before.bidder_index % 4) + 1]
                /\ consecutive_passes' = before.consecutive_passes
          /\ (current_sequence = <<>>) =>
                UNCHANGED <<current_sequence, bidder_index, consecutive_passes>>]_vars

\* the second of two passes after West's 1H has been taken back: the ledger
\* is 1H, P again, one pass counted, East to bid
C20_PassTakenBack ==
    /\ prog = "streamlit_app"
    /\ dealer = "W"
    /\ before.op = "undoLast"
    /\ before.current_sequence = <<"1H", "P", "P">>
    /\ current_sequence = <<"1H", "P">>
    /\ consecutive_passes = 1
    /\ app_get_current_bidder = "E"

----------------------------------------------------------------------------
(* run_loop's hand prompt: the typed text is parsed into the Hand *)

\* rank groups typed between the dots of the S.H.D.C notation
ParseGroups == {"AK764", "A52", "83", "J74", "AKQ", "AA"}

DotTexts ==
    {g1 \o "." \o g2 \o "." \o g3 \o "." \o g4 :
        g1 \in ParseGroups, g2 \in ParseGroups, g3 \in ParseGroups, g4 \in ParseGroups}

\* texts in the notation of 13 space-separated cards, and malformed ones
TokenTexts ==
    {"AS KS 7S 6S 4S AH 5H 2H 8D 3D JC 7C 4C",
     " as ks 7s 6s 4s ah 5h 2h  8d 3d jc 7c 4c ",
     "AS AS 7S 6S 4S AH 5H 2H 8D 3D JC 7C 4C",
     "AS KS 7S 6S 4S AH 5H 2H 8D 3D JC 7C",
     "AS KS 7S 6S 4S AH 5H 2H 8D 3D JC 7C 4X",
     "AS KS 7S 6S 4S AH 5H 2H 8D 3D JC 7C 10C",
     "AK-764.A52.83.J74", "AK764.A52.83", "1K764.A52.83.J74", ""}

ParseTexts == DotTexts \cup TokenTexts

ParseInit ==
    /\ prog = "parse"
    /\ pc = "hand"
    /\ hstr = ""
    /\ your = NoHand
    /\ you = "S" /\ dealer = "S" /\ turn = "S" /\ auction = <<>> /\ passes = 0
    /\ sugs = <<>>
    /\ bidder_index = 0 /\ current_sequence = <<>> /\ consecutive_passes = 0
    /\ trump_suit = "None" /\ ended = "None"
    /\ reply = NoReply /\ before = NoChange

\* lines 281-282: the text is read and parsed; a ValueError ends the program
ReadHand(text) ==
    LET cards == parse_hand_string(text)
    IN /\ prog = "parse" /\ pc = "hand"
       /\ hstr' = text
       /\ IF cards = ValueError
          THEN pc' = "ValueError" /\ your' = your
          ELSE pc' = "turn" /\ your' = Hand(cards)
       /\ UNCHANGED <<prog, you, dealer, turn, auction, passes, sugs,
                      bidder_index, current_sequence, consecutive_passes, trump_suit, ended,
                      reply, before>>

ParseNext == \E text \in ParseTexts : ReadHand(text)

ParseSpec == ParseInit /\ [][ParseNext]_vars

----------------------------------------------------------------------------
(* C21 *)

\* C21: every Hand that parse returns without an error, in either notation,
\* has exactly 13 cards, all distinct, and suit lengths summing to 13 (an
\* input with a wrong card count or a duplicate card is rejected).
C21_ParsedHandHasThirteenCards ==
    (prog = "parse" /\ pc = "turn") =>
        /\ Len(your.cards) = 13
        /\ \A i, j \in 1..Len(your.cards) : i # j => your.cards[i] # your.cards[j]
        /\ your.shape[1] + your.shape[2] + your.shape[3] + your.shape[4] = 13

----------------------------------------------------------------------------
(* C22 *)

\* the place of the most recent call other than 'P'
LastMeaningfulPlace(seq) ==
    CHOOSE i \in 1..Len(seq) : seq[i] # "P" /\ \A j \in (i + 1)..Len(seq) : seq[j] = "P"

\* C22: for every dealer and every recorded sequence with a non-Pass call,
\* _get_last_bid_info returns, without error, the most recent non-Pass call
\* and the seat that made it: the dealer advanced by the call's position,
\* also when the call's string stands more than once in the sequence.
C22_LastBidInfoNamesCaller ==
    (/\ prog \in {"streamlit_app", "bridge_coach_agent"}
     /\ ended # "AttributeError"
     /\ Meaningful(current_sequence) # <<>>) =>
        LET i == LastMeaningfulPlace(current_sequence)
            info == IF prog = "streamlit_app"
                    THEN [last_bid |-> app_get_last_bid_info.last_bid,
                          last_bidder |-> app_get_last_bid_info.last_bidder]
                    ELSE [last_bid |-> coach_get_last_bid_info.last_bid,
                          last_bidder |-> coach_get_last_bid_info.last_bidder]
        IN /\ info.last_bid = current_sequence[i]
           /\ info.last_bidder = Caller(i)

----------------------------------------------------------------------------
(* C23 *)

\* Pass, Double, Redouble, or a level 1-7 with a suit or no-trump
WellFormedCall(b) == b \in {"Pass", "X", "XX"} \/ IsContract(b)

\* the rank of the most recent Contract call of a ledger, 0 when there is none
RECURSIVE LastContractRank(_)
LastContractRank(a) ==
    IF a = <<>> THEN 0
    ELSE IF IsContract(a[Len(a)]) THEN ContractRank(a[Len(a)])
    ELSE LastContractRank(SubSeq(a, 1, Len(a) - 1))

\* the Contract calls of a ledger ascend
AscendingLedger(a) ==
    \A i, j \in 1..Len(a) :
        (i < j /\ IsContract(a[i]) /\ IsContract(a[j])) => ContractRank(a[i]) < ContractRank(a[j])

\* C23: every suggestion advise returns names a call that can legally be
\* recorded: a well-formed call, and a suggested Contract call outranks the
\* most recent Contract call of the ledger.
C23_SuggestionsAreLegalCalls ==
    (prog = "advise" /\ ~IsRaised(sugs) /\ AscendingLedger(auction)) =>
        \A i \in 1..Len(sugs) :
            /\ WellFormedCall(sugs[i].bid)
            /\ IsContract(sugs[i].bid) => ContractRank(sugs[i].bid) > LastContractRank(auction)

====
